---- MODULE Spec2Model ----
(***************************************************************************)
(* A model of PROJECT-S-3: the mission records manager of js/script.js     *)
(* (MissionManager, Mission) and the scroll progress step of               *)
(* js/parallax.js (ParallaxController).                                    *)
(*                                                                         *)
(* Text is modelled as a sequence of tokens.  A token is a whitespace      *)
(* character (" ") or a non-blank chunk of characters; the year field is   *)
(* spelled character by character because Number() and parseInt() read it  *)
(* character by character.                                                 *)
(***************************************************************************)
EXTENDS Integers, Sequences, FiniteSets, TLC

\* ------------------------------------------------------------------ bounds
\* Date.now() readings are 0..MaxClock (milliseconds since the first load).
MaxClock == 1
\* Math.random() is one of RandLevels values: Date.now() + Math.random() is
\* rounded to a double, which leaves 2^12 distinct fractions per millisecond.
RandLevels == 3
\* createMission is not offered once the collection holds MaxMissions records.
MaxMissions == 3
\* Window and document heights are 1000..1000*MaxUnits pixels, scroll
\* offsets 0..1000*(MaxUnits-1) pixels, in steps of 1000.
MaxUnits == 3
\* In a session of two tabs, no handler saves once MaxWrites saves were made.
MaxWrites == 2
\* setTimeout is not called once it has handed out MaxTimers timer ids.
MaxTimers == 3
\* The eased pointer position is kept to 1/EaseScale.
EaseScale == 10

\* ------------------------------------------------------ program constants
MIN_YEAR == 1957
MAX_YEAR == 2100

\* ------------------------------------------------------------ JS values
\* A JS number is m * 10^e, or NaN; null is the JSON null.
Num(n) == [t |-> "num", m |-> n, e |-> 0]
NaN == [t |-> "NaN", m |-> 0, e |-> 0]
JsNull == [t |-> "null", m |-> 0, e |-> 0]

RECURSIVE Pow10(_)
Pow10(k) == IF k <= 0 THEN 1 ELSE 10 * Pow10(k - 1)

\* x < k and x > k for a JS number x and an integer k (false for NaN).
NumLess(x, k) ==
  /\ x.t = "num"
  /\ IF x.e >= 0 THEN x.m * Pow10(x.e) < k ELSE x.m < k * Pow10(0 - x.e)
NumGreater(x, k) ==
  /\ x.t = "num"
  /\ IF x.e >= 0 THEN x.m * Pow10(x.e) > k ELSE x.m > k * Pow10(0 - x.e)

\* ----------------------------------------------------------------- text
WhiteSpace == {" "}
Digits == {"0", "1", "2", "3", "4", "5", "6", "7", "8", "9"}

DigitVal(c) ==
  CASE c = "0" -> 0 [] c = "1" -> 1 [] c = "2" -> 2 [] c = "3" -> 3
    [] c = "4" -> 4 [] c = "5" -> 5 [] c = "6" -> 6 [] c = "7" -> 7
    [] c = "8" -> 8 [] c = "9" -> 9

Take(s, n) == SubSeq(s, 1, n)
Drop(s, n) == SubSeq(s, n + 1, Len(s))

RECURSIVE TrimStart(_)
TrimStart(s) ==
  IF s /= <<>> /\ Head(s) \in WhiteSpace THEN TrimStart(Tail(s)) ELSE s

RECURSIVE TrimEnd(_)
TrimEnd(s) ==
  IF s /= <<>> /\ s[Len(s)] \in WhiteSpace THEN TrimEnd(Take(s, Len(s) - 1)) ELSE s

\* String.prototype.trim
Trim(s) == TrimEnd(TrimStart(s))

\* The number of leading decimal digits of s.
RECURSIVE DigitRun(_)
DigitRun(s) ==
  IF s /= <<>> /\ Head(s) \in Digits THEN 1 + DigitRun(Tail(s)) ELSE 0

\* The value of a sequence of decimal digits.
RECURSIVE DigitsValue(_)
DigitsValue(s) ==
  IF s = <<>> THEN 0
  ELSE 10 * DigitsValue(Take(s, Len(s) - 1)) + DigitVal(s[Len(s)])

HasSign(s) == s /= <<>> /\ Head(s) \in {"+", "-"}
SignOf(s) == IF s /= <<>> /\ Head(s) = "-" THEN 0 - 1 ELSE 1
Unsigned(s) == IF HasSign(s) THEN Tail(s) ELSE s

\* parseInt(text): leading whitespace, a sign, then the longest run of
\* decimal digits; what follows the digits is ignored; no digit gives NaN.
ParseDigits(u) ==
  IF DigitRun(u) = 0 THEN NaN ELSE Num(DigitsValue(Take(u, DigitRun(u))))
Negate(x) == IF x.t = "num" THEN [x EXCEPT !.m = 0 - x.m] ELSE x
ParseInt(s) ==
  IF SignOf(TrimStart(s)) < 0
  THEN Negate(ParseDigits(Unsigned(TrimStart(s))))
  ELSE ParseDigits(Unsigned(TrimStart(s)))

\* Number(text) reads the trimmed text as a decimal literal, one character
\* at a time: a sign, integer digits, a fraction, an exponent.  ph is the
\* part being read; m collects the digits, nd counts them, fl counts those
\* of the fraction; ev is the exponent.
ScanStart ==
  [ph |-> "start", neg |-> FALSE, m |-> 0, nd |-> 0, fl |-> 0,
   eneg |-> FALSE, ev |-> 0]

ScanChar(st, c) ==
  IF c \in Digits
  THEN IF st.ph \in {"start", "int"}
       THEN [st EXCEPT !.ph = "int", !.m = 10 * st.m + DigitVal(c),
                       !.nd = st.nd + 1]
       ELSE IF st.ph = "frac"
       THEN [st EXCEPT !.m = 10 * st.m + DigitVal(c), !.nd = st.nd + 1,
                       !.fl = st.fl + 1]
       ELSE IF st.ph \in {"e", "esign", "exp"}
       THEN [st EXCEPT !.ph = "exp", !.ev = 10 * st.ev + DigitVal(c)]
       ELSE [st EXCEPT !.ph = "bad"]
  ELSE IF c \in {"+", "-"}
  THEN IF st.ph = "start"
       THEN [st EXCEPT !.ph = "int", !.neg = (c = "-")]
       ELSE IF st.ph = "e"
       THEN [st EXCEPT !.ph = "esign", !.eneg = (c = "-")]
       ELSE [st EXCEPT !.ph = "bad"]
  ELSE IF c = "."
  THEN IF st.ph \in {"start", "int"}
       THEN [st EXCEPT !.ph = "frac"]
       ELSE [st EXCEPT !.ph = "bad"]
  ELSE IF c \in {"e", "E"}
  THEN IF st.ph \in {"int", "frac"} /\ st.nd > 0
       THEN [st EXCEPT !.ph = "e"]
       ELSE [st EXCEPT !.ph = "bad"]
  ELSE [st EXCEPT !.ph = "bad"]

RECURSIVE Scan(_, _)
Scan(s, st) == IF s = <<>> THEN st ELSE Scan(Tail(s), ScanChar(st, Head(s)))

\* The number a finished scan denotes; NaN when the text is no literal.
ScanValue(st) ==
  IF st.ph \in {"int", "frac", "exp"} /\ st.nd > 0
  THEN [t |-> "num", m |-> (IF st.neg THEN 0 - st.m ELSE st.m),
        e |-> (IF st.eneg THEN 0 - st.ev ELSE st.ev) - st.fl]
  ELSE NaN

\* Number(text), as isNaN(text) and text < k apply it; the empty text is 0.
ToNumber(s) ==
  IF Trim(s) = <<>> THEN Num(0) ELSE ScanValue(Scan(Trim(s), ScanStart))

\* isNaN(text)
IsNaN(s) == ToNumber(s).t = "NaN"

\* ------------------------------------------------------------ records
null == 0 - 1

\* Date.now() + Math.random(): reading t of the clock and random level r.
NewId(t, r) == t * RandLevels + r

\* new Mission(name, destination, year, status), constructed at clock
\* reading t with Math.random() giving level r.
Mission(name, destination, year, status, t, r) ==
  [id |-> NewId(t, r), name |-> name, destination |-> destination,
   year |-> ParseInt(year), status |-> status, createdAt |-> t]

\* getDefaultMissions(): r[1..3] are the three Math.random() results.
getDefaultMissions(t, r) ==
  << Mission(<<"Voyager 1">>, <<"Espacio Interestelar">>,
             <<"1", "9", "7", "7">>, <<"active">>, t, r[1]),
     Mission(<<"Apollo 11">>, <<"Luna">>,
             <<"1", "9", "6", "9">>, <<"completed">>, t, r[2]),
     Mission(<<"Mars 2020">>, <<"Marte">>,
             <<"2", "0", "2", "0">>, <<"active">>, t, r[3]) >>

\* --------------------------------------------------------------- storage
\* The value under MISSIONS_STORAGE_KEY: no item (getItem gives null), the
\* empty string, a text that is not JSON, or the JSON text of a collection.
NoItem == [kind |-> "null", items |-> <<>>]
EmptyText == [kind |-> "empty", items |-> <<>>]
Malformed == [kind |-> "malformed", items |-> <<>>]

\* JSON.stringify of one record: NaN is written as null.
JsonOfMission(m) ==
  [m EXCEPT !.year = IF m.year.t = "NaN" THEN JsNull ELSE m.year]

\* JSON.stringify(this.missions)
Stringify(ms) ==
  [kind |-> "json", items |-> [i \in 1..Len(ms) |-> JsonOfMission(ms[i])]]

\* JSON.parse(stored): throws on a text that is not JSON.
JsonParse(stored) ==
  IF stored.kind = "json" THEN [threw |-> FALSE, value |-> stored.items]
  ELSE [threw |-> TRUE, value |-> <<>>]

\* loadMissions(): stored ? JSON.parse(stored) : this.getDefaultMissions()
loadMissions(stored, t, r) ==
  IF stored.kind \in {"json", "malformed"} THEN JsonParse(stored)
  ELSE [threw |-> FALSE, value |-> getDefaultMissions(t, r)]

\* ------------------------------------------------------------ validation
Fields == {"name", "destination", "year", "status"}
NoErrors == [f \in Fields |-> ""]

\* validateField(value, errorElementId, errorMessage): the result and the
\* text it leaves in the error element.
validateField(value, errorMessage) ==
  IF value = <<>> \/ Trim(value) = <<>>
  THEN [ok |-> FALSE, text |-> errorMessage]
  ELSE [ok |-> TRUE, text |-> ""]

\* validateYear(year, errorElementId)
validateYear(year) ==
  IF year = <<>> \/ IsNaN(year)
  THEN [ok |-> FALSE, text |-> "El ano es requerido"]
  ELSE IF NumLess(ToNumber(year), MIN_YEAR) \/ NumGreater(ToNumber(year), MAX_YEAR)
  THEN [ok |-> FALSE, text |-> "El ano debe estar entre 1957 y 2100"]
  ELSE [ok |-> TRUE, text |-> ""]

\* validateForm as it would be with the four checks chained by &&: the checks
\* after the first failing one are not run.
validateFormShortCircuit(formData) ==
  LET NAME == validateField(formData.name, "El nombre es requerido")
      DESTINATION == validateField(formData.destination, "El destino es requerido")
      YEAR == validateYear(formData.year)
      STATUS == validateField(formData.status, "El estado es requerido")
  IN  [ok |-> NAME.ok /\ DESTINATION.ok /\ YEAR.ok /\ STATUS.ok,
       errs |-> [name |-> NAME.text,
                 destination |-> IF NAME.ok THEN DESTINATION.text ELSE "",
                 year |-> IF NAME.ok /\ DESTINATION.ok THEN YEAR.text ELSE "",
                 status |-> IF NAME.ok /\ DESTINATION.ok /\ YEAR.ok
                            THEN STATUS.text ELSE ""]]

\* validateForm(formData, prefix): all four fields are validated, then the
\* conjunction is returned; errs is what the four error elements hold.
validateForm(formData) ==
  LET NAME == validateField(formData.name, "El nombre es requerido")
      DESTINATION == validateField(formData.destination, "El destino es requerido")
      YEAR == validateYear(formData.year)
      STATUS == validateField(formData.status, "El estado es requerido")
  IN  [ok |-> NAME.ok /\ DESTINATION.ok /\ YEAR.ok /\ STATUS.ok,
       errs |-> [name |-> NAME.text, destination |-> DESTINATION.text,
                 year |-> YEAR.text, status |-> STATUS.text]]

\* ------------------------------------------------------------- the state
VARIABLES
  storage,           \* localStorage value under MISSIONS_STORAGE_KEY
  mgr,               \* "unloaded", "ready", or "failed" (the constructor threw)
  missions,          \* this.missions
  editingMissionId,  \* this.editingMissionId
  modalDisplay,      \* style.display of the edit modal: "", "block", "none"
  view,              \* data-id of the cards in the list container
  errorText,         \* text of the error elements, by prefix and field
  now,               \* the last Date.now() reading
  \* js/parallax.js
  pageYOffset,       \* window.pageYOffset
  innerHeight,       \* window.innerHeight
  scrollHeight,      \* document.documentElement.scrollHeight
  supportsRAF,       \* supports.requestAnimationFrame
  hasProgressBar,    \* getElementById('scroll-progress') finds an element
  ctl,               \* "none", or "running" once ParallaxController is built
  scrollY,           \* this.scrollY
  windowHeight,      \* this.windowHeight
  documentHeight,    \* this.documentHeight
  resizeTimeout,     \* the resize listener's timer handle, 0 while undefined
  progressWidth,     \* style.width of the progress bar, in percent
  timers,            \* the window's pending timers
  nextTimer,         \* the last timer id setTimeout returned
  mouseMoveTimeout,  \* the mousemove listener's timer handle, 0 while undefined
  targetMouseX,      \* this.targetMouseX
  targetMouseY,      \* this.targetMouseY
  mouseX,            \* this.mouseX, in 1/EaseScale
  mouseY,            \* this.mouseY, in 1/EaseScale
  \* a second tab on the same origin
  tab,               \* the tab whose page the variables above describe: 1 or 2
  other,             \* the page of the other tab
  lastWriter,        \* the tab whose page called saveMissions last, 0 if none
  writes             \* the number of saveMissions calls so far

\* The missions page of the tab in front (storage and the clock are shared
\* with the other tab), the parallax controller, and the tabs.
pagevars == <<storage, mgr, missions, editingMissionId, modalDisplay, view,
              errorText, now>>
winvars == <<pageYOffset, innerHeight, scrollHeight, supportsRAF,
             hasProgressBar, ctl, scrollY, windowHeight, documentHeight,
             resizeTimeout, progressWidth, timers, nextTimer,
             mouseMoveTimeout, targetMouseX, targetMouseY, mouseX, mouseY>>
tabvars == <<tab, other, lastWriter, writes>>
\* What the parallax controller leaves alone, and what the handlers of the
\* missions page leave alone.
mvars == <<pagevars, tabvars>>
pvars == <<winvars, tabvars>>
vars == <<pagevars, winvars, tabvars>>

\* missions.find(m => m.id === id): the index of the first match, or 0.
FindIndex(ms, id) ==
  IF \E i \in 1..Len(ms) : ms[i].id = id
  THEN CHOOSE i \in 1..Len(ms) :
         /\ ms[i].id = id
         /\ \A j \in 1..(i - 1) : ms[j].id /= id
  ELSE 0

\* missions.filter(mission => mission.id !== id)
RECURSIVE FilterOut(_, _)
FilterOut(ms, id) ==
  IF ms = <<>> THEN <<>>
  ELSE IF Head(ms).id /= id THEN <<Head(ms)>> \o FilterOut(Tail(ms), id)
  ELSE FilterOut(Tail(ms), id)

\* renderMissions(): one card per record, in order, its buttons tagged with
\* the record's id (the placeholder, for an empty collection, has none).
Render(ms) == [i \in 1..Len(ms) |-> ms[i].id]

\* --------------------------------------------------------------- inputs
\* What the forms deliver: the text of the three inputs and the value of
\* the status select (its first option has the empty value).
ValidName == <<"Europa Clipper">>
ValidDestination == <<"Europa">>
ValidStatus == <<"planned">>
Form(name, destination, year, status) ==
  [name |-> name, destination |-> destination, year |-> year,
   status |-> status]

\* The submissions Spec draws from.  The create form: plain valid data, and
\* the year 1957 written ".1957e4".  The edit form: valid data with the year
\* 2000 written "2e3", and the same with a blank destination.
PlainCreate ==
  Form(ValidName, ValidDestination, <<"2", "0", "2", "4">>, ValidStatus)
ScaledYearCreate ==
  Form(ValidName, ValidDestination, <<".", "1", "9", "5", "7", "e", "4">>,
       ValidStatus)
CreateFormData == {PlainCreate, ScaledYearCreate}
ValidEdit ==
  Form(<<"Artemis", " ", "II">>, <<"Luna">>, <<"2", "e", "3">>,
       <<"completed">>)
BlankDestinationEdit ==
  Form(<<"Artemis", " ", "II">>, <<" ">>, <<"2", "e", "3">>,
       <<"completed">>)
EditFormData == {ValidEdit, BlankDestinationEdit}

\* The submissions SpecInvalid draws from: every combination of these field
\* values in which some field is blank or the year is no year in range.
Blank(text) == \A i \in 1..Len(text) : text[i] \in WhiteSpace
YearTextsInRange == { <<"2", "0", "2", "4">>, <<"2", "e", "3">> }
FieldInvalid(formData, field) ==
  IF field = "year" THEN formData.year \notin YearTextsInRange
  ELSE Blank(formData[field])
SomeFieldInvalid(formData) == \E field \in Fields : FieldInvalid(formData, field)
InvalidCreateData ==
  { f \in { Form(n, <<" ">>, y, ValidStatus) :
              n \in {<<>>, ValidName},
              y \in {<<>>, <<"2", "1", "0", "1">>} } :
      SomeFieldInvalid(f) }
InvalidEditData ==
  { f \in { Form(<<" ", "Hubble">>, ValidDestination, y, st) :
              y \in {<<"1", "9", "5", "6">>, <<"2", "e", "3">>},
              st \in {<<>>, <<"active">>} } :
      SomeFieldInvalid(f) }

\* validateForm reads nothing but formData: its result for every submission
\* the specifications draw from.
Submissions ==
  CreateFormData \cup EditFormData \cup InvalidCreateData \cup InvalidEditData
Validation == [f \in Submissions |-> validateForm(f)]

FreshErrors == [prefix \in {"", "edit-"} |-> NoErrors]

\* ------------------------------------------------------ js/script.js
\* Before DOMContentLoaded: whatever an earlier visit left in storage.
InitMissions ==
  /\ storage \in {NoItem, EmptyText, Malformed}
  /\ mgr = "unloaded"
  /\ missions = <<>>
  /\ editingMissionId = null
  /\ modalDisplay = ""
  /\ view = <<>>
  /\ errorText = FreshErrors
  /\ now = 0

\* DOMContentLoaded -> initializeApp -> new MissionManager(), on the first
\* load of the page and on every reload: a fresh document, the collection
\* read from storage.  A throw in loadMissions leaves the page without a
\* manager.
PageLoad ==
  /\ \E t \in now..MaxClock, r \in [1..3 -> 0..(RandLevels - 1)] :
       LET loaded == loadMissions(storage, t, r)
           constructs == storage.kind \notin {"json", "malformed"}
       IN  \* the clock and Math.random() are read only by getDefaultMissions
           /\ constructs \/ (t = now /\ \A i \in 1..3 : r[i] = 0)
           /\ now' = t
           /\ IF loaded.threw
              THEN mgr' = "failed" /\ missions' = <<>> /\ view' = <<>>
              ELSE /\ mgr' = "ready"
                   /\ missions' = loaded.value
                   /\ view' = Render(loaded.value)
           /\ editingMissionId' = null
           /\ modalDisplay' = ""
           /\ errorText' = FreshErrors
           /\ UNCHANGED storage
  /\ UNCHANGED pvars

\* saveMissions() as it would be if it serialised the collection as it was
\* before the change.
saveMissionsStale == storage' = Stringify(missions)

\* saveMissions(), after this.missions changed
saveMissions == storage' = Stringify(missions')

\* renderMissions(), after this.missions changed
renderMissions == view' = Render(missions')

\* createMission(name, destination, year, status)
createMission(name, destination, year, status) ==
  /\ Len(missions) < MaxMissions
  /\ \E t \in now..MaxClock, r \in 0..(RandLevels - 1) :
       /\ now' = t
       /\ missions' =
            Append(missions, Mission(name, destination, year, status, t, r))
  /\ saveMissions
  /\ renderMissions

\* updateMission as it would be if it put a newly constructed record in the
\* place of the one found.
updateMissionRebuild(id, name, destination, year, status) ==
  LET i == FindIndex(missions, id)
  IN  IF i /= 0
      THEN /\ missions' =
                [missions EXCEPT
                   ![i] = Mission(name, destination, year, status, now, 0)]
           /\ saveMissions
           /\ renderMissions
      ELSE UNCHANGED <<missions, storage, view>>

\* updateMission(id, name, destination, year, status)
updateMission(id, name, destination, year, status) ==
  LET i == FindIndex(missions, id)
  IN  IF i /= 0
      THEN /\ missions' = [missions EXCEPT ![i].name = name,
                                            ![i].destination = destination,
                                            ![i].year = ParseInt(year),
                                            ![i].status = status]
           /\ saveMissions
           /\ renderMissions
      ELSE UNCHANGED <<missions, storage, view>>

\* deleteMission(id)
deleteMission(id) ==
  /\ missions' = FilterOut(missions, id)
  /\ saveMissions
  /\ renderMissions

\* closeEditModal as it would be without its last statement.
closeEditModalKeepId ==
  /\ modalDisplay' = "none"
  /\ UNCHANGED editingMissionId

\* closeEditModal()
closeEditModal ==
  /\ modalDisplay' = "none"
  /\ editingMissionId' = null

\* openEditModal(id)
openEditModal(id) ==
  IF FindIndex(missions, id) = 0
  THEN UNCHANGED <<editingMissionId, errorText, modalDisplay>>
  ELSE /\ editingMissionId' = id
       /\ errorText' = [errorText EXCEPT !["edit-"] = NoErrors]
       /\ modalDisplay' = "block"

\* handleSubmit(event): the create form is submitted holding formData.
handleSubmit(formData) ==
  /\ mgr = "ready"
  /\ LET v == Validation[formData]
     IN  /\ errorText' = [errorText EXCEPT ![""] = v.errs]
         /\ IF v.ok
            THEN createMission(formData.name, formData.destination,
                               formData.year, formData.status)
            ELSE UNCHANGED <<missions, storage, view, now>>
  /\ UNCHANGED <<mgr, editingMissionId, modalDisplay>>

\* handleEditSubmit(event): the edit form, which is operable only while
\* the modal is displayed, is submitted holding formData.
handleEditSubmit(formData) ==
  /\ mgr = "ready"
  /\ modalDisplay = "block"
  /\ LET v == Validation[formData]
     IN  /\ errorText' = [errorText EXCEPT !["edit-"] = v.errs]
         /\ IF v.ok
            THEN /\ updateMission(editingMissionId, formData.name,
                                  formData.destination, formData.year,
                                  formData.status)
                 /\ closeEditModal
            ELSE UNCHANGED <<missions, storage, view, modalDisplay,
                             editingMissionId>>
  /\ UNCHANGED <<mgr, now>>

\* The click handler of the i-th card's .btn-edit.
EditButtonClick(i) ==
  /\ mgr = "ready"
  /\ i \in 1..Len(view)
  /\ openEditModal(view[i])
  /\ UNCHANGED <<storage, mgr, missions, view, now>>

\* The click handlers of .modal-close and of the modal's backdrop.
CloseClick ==
  /\ mgr = "ready"
  /\ modalDisplay = "block"
  /\ closeEditModal
  /\ UNCHANGED <<storage, mgr, missions, view, errorText, now>>
  /\ UNCHANGED pvars

\* The delete button's handler as it would be without the confirm().
DeleteButtonClickNoConfirm(i, confirmed) ==
  /\ mgr = "ready"
  /\ i \in 1..Len(view)
  /\ deleteMission(view[i])
  /\ UNCHANGED <<mgr, editingMissionId, modalDisplay, errorText, now>>

\* The click handler of the i-th card's .btn-delete; confirmed is the
\* answer to confirm().
DeleteButtonClick(i, confirmed) ==
  /\ mgr = "ready"
  /\ i \in 1..Len(view)
  /\ IF confirmed
     THEN deleteMission(view[i])
     ELSE UNCHANGED <<missions, storage, view>>
  /\ UNCHANGED <<mgr, editingMissionId, modalDisplay, errorText, now>>

SubmitCreate ==
  /\ \E f \in CreateFormData : handleSubmit(f)
  /\ UNCHANGED pvars
SubmitEdit ==
  /\ \E f \in EditFormData : handleEditSubmit(f)
  /\ UNCHANGED pvars
ClickEdit ==
  /\ \E i \in 1..MaxMissions : EditButtonClick(i)
  /\ UNCHANGED pvars
ClickDelete ==
  /\ \E i \in 1..MaxMissions, c \in BOOLEAN : DeleteButtonClick(i, c)
  /\ UNCHANGED pvars
SubmitInvalidCreate ==
  /\ \E f \in InvalidCreateData : handleSubmit(f)
  /\ UNCHANGED pvars
SubmitInvalidEdit ==
  /\ \E f \in InvalidEditData : handleEditSubmit(f)
  /\ UNCHANGED pvars

\* ------------------------------------------------------ js/parallax.js
\* scrollPercentage and the width are JS numbers n/d, Infinity or NaN; the
\* width of an element whose style.width was never set is Unset.
RECURSIVE GCD(_, _)
GCD(a, b) == IF b = 0 THEN a ELSE GCD(b, a % b)
Abs(n) == IF n < 0 THEN 0 - n ELSE n
Ratio(n, d) ==
  [t |-> "num",
   n |-> (IF d < 0 THEN 0 - n ELSE n) \div GCD(Abs(n), Abs(d)),
   d |-> Abs(d) \div GCD(Abs(n), Abs(d))]
PercentNaN == [t |-> "NaN", n |-> 0, d |-> 1]
PercentInfinity == [t |-> "inf", n |-> 1, d |-> 1]
Unset == [t |-> "unset", n |-> 0, d |-> 1]

Heights == { 1000 * k : k \in 1..MaxUnits }
Offsets == { 1000 * k : k \in 0..(MaxUnits - 1) }

\* (this.scrollY / maxScroll) * 100, for a scroll offset y >= 0
scrollPercentage(y, maxScroll) ==
  IF maxScroll = 0
  THEN IF y = 0 THEN PercentNaN ELSE PercentInfinity
  ELSE Ratio(y * 100, maxScroll)

\* Math.min(x, k)
MathMin(x, k) ==
  IF x.t = "NaN" THEN x
  ELSE IF x.t = "inf" THEN Ratio(k, 1)
  ELSE IF x.n > k * x.d THEN Ratio(k, 1)
  ELSE x

\* progressBar.style.width = `${x}%`: a declaration that is no length
\* ("NaN%", "Infinity%", a negative percentage) is dropped and the style
\* keeps the width it had.
StyleWidth(old, x) == IF x.t = "num" /\ x.n >= 0 THEN x ELSE old

\* updateProgress(): the width the progress bar has afterwards.
updateProgress(old, present, y, wh, dh) ==
  IF ~present THEN old
  ELSE StyleWidth(old, MathMin(scrollPercentage(y, dh - wh), 100))

\* x + (target - x) * 0.1, for x in 1/EaseScale and the target n/d,
\* rounded to the nearest 1/EaseScale.
Ease(x, target) ==
  (2 * (9 * x * target.d + target.n * EaseScale) + 10 * target.d)
    \div (20 * target.d)

\* (clientX / window.innerWidth - 0.5) * 2
PointerTarget(client, inner) == Ratio(2 * client - inner, inner)

\* window.innerWidth, which no event of the model changes
innerWidth == 1000

\* The delays the two listeners pass to setTimeout, in milliseconds.
MOUSEMOVE_DELAY == 10
RESIZE_DELAY == 150

\* A pending timer: its id, the listener that set it, its delay, and the
\* event its callback closes over (the resize callback closes over none).
Timer(id, kind, delay, clientX, clientY) ==
  [id |-> id, kind |-> kind, delay |-> delay, clientX |-> clientX,
   clientY |-> clientY]

\* clearTimeout left out of the listeners.
clearTimeoutNothing(pending, handle) == pending

\* clearTimeout(handle): the pending timers afterwards; a handle that is
\* undefined or names a timer that has fired clears nothing.
clearTimeout(pending, handle) == { t \in pending : t.id /= handle }

\* setTimeout(callback, delay): the pending timers afterwards.
setTimeout(pending, timer) == pending \cup {timer}

\* update(), after the handler's own assignments; the planets' transforms
\* are written and never read.
update ==
  /\ mouseX' = Ease(mouseX, targetMouseX')
  /\ mouseY' = Ease(mouseY, targetMouseY')
  /\ progressWidth' =
       updateProgress(progressWidth, hasProgressBar', scrollY', windowHeight',
                      documentHeight')

\* Before DOMContentLoaded: a window on a page at least as tall as it,
\* possibly restored at a scroll offset.
InitWindow ==
  /\ innerHeight \in Heights
  /\ scrollHeight \in { d \in Heights : d >= innerHeight }
  /\ pageYOffset \in { y \in Offsets : y <= scrollHeight - innerHeight }
  /\ supportsRAF \in BOOLEAN
  /\ hasProgressBar = FALSE
  /\ ctl = "none"
  /\ scrollY = 0
  /\ windowHeight = 0
  /\ documentHeight = 0
  /\ resizeTimeout = 0
  /\ progressWidth = Unset
  /\ timers = {}
  /\ nextTimer = 0
  /\ mouseMoveTimeout = 0
  /\ targetMouseX = Ratio(0, 1)
  /\ targetMouseY = Ratio(0, 1)
  /\ mouseX = 0
  /\ mouseY = 0

\* initParallax(): new ScrollProgressBar() puts the progress bar in the
\* document, new ParallaxController() caches the window's geometry, zeroes
\* the pointer position and its target, and runs init(), which binds the
\* listeners and runs update().
initParallax ==
  /\ ctl = "none"
  /\ ctl' = "running"
  /\ hasProgressBar' = TRUE
  /\ scrollY' = pageYOffset
  /\ windowHeight' = innerHeight
  /\ documentHeight' = scrollHeight
  /\ targetMouseX' = Ratio(0, 1)
  /\ targetMouseY' = Ratio(0, 1)
  /\ update
  /\ UNCHANGED <<pageYOffset, innerHeight, scrollHeight, supportsRAF,
                 resizeTimeout, timers, nextTimer, mouseMoveTimeout>>
  /\ UNCHANGED mvars

\* The page is scrolled to offset y and the scroll listener runs;
\* this.ticking is false whenever a listener starts.
Scroll(y) ==
  /\ ctl = "running"
  /\ y <= scrollHeight - innerHeight
  /\ y /= pageYOffset
  /\ pageYOffset' = y
  /\ scrollY' = y
  /\ UNCHANGED <<innerHeight, scrollHeight, supportsRAF, hasProgressBar, ctl,
                 windowHeight, documentHeight, resizeTimeout, timers,
                 nextTimer, mouseMoveTimeout, targetMouseX, targetMouseY>>
  /\ IF ~supportsRAF THEN update
     ELSE UNCHANGED <<progressWidth, mouseX, mouseY>>

\* The window is resized (the page reflows to height d, the window to
\* height h, the scroll offset still within range) and the resize listener
\* clears its timer and sets a new one.
Resize(h, d) ==
  /\ ctl = "running"
  /\ nextTimer < MaxTimers
  /\ d >= h
  /\ pageYOffset <= d - h
  /\ <<h, d>> /= <<innerHeight, scrollHeight>>
  /\ innerHeight' = h
  /\ scrollHeight' = d
  /\ timers' = setTimeout(clearTimeout(timers, resizeTimeout),
                          Timer(nextTimer + 1, "resize", RESIZE_DELAY, 0, 0))
  /\ resizeTimeout' = nextTimer + 1
  /\ nextTimer' = nextTimer + 1
  /\ UNCHANGED <<pageYOffset, supportsRAF, hasProgressBar, ctl, scrollY,
                 windowHeight, documentHeight, progressWidth,
                 mouseMoveTimeout, targetMouseX, targetMouseY, mouseX, mouseY>>

\* A pending timer of the resize listener fires.
ResizeTimeout ==
  /\ \E t \in timers :
       /\ t.kind = "resize"
       /\ timers' = timers \ {t}
  /\ windowHeight' = innerHeight
  /\ documentHeight' = scrollHeight
  /\ UNCHANGED <<pageYOffset, innerHeight, scrollHeight, supportsRAF,
                 hasProgressBar, ctl, scrollY, resizeTimeout, nextTimer,
                 mouseMoveTimeout, targetMouseX, targetMouseY>>
  /\ update
  /\ UNCHANGED mvars

\* The pointer moves to (clientX, clientY) and the mousemove listener
\* clears its timer and sets a new one, whose callback closes over the
\* event.
MouseMove(clientX, clientY) ==
  /\ ctl = "running"
  /\ nextTimer < MaxTimers
  /\ timers' = setTimeout(clearTimeout(timers, mouseMoveTimeout),
                          Timer(nextTimer + 1, "mousemove", MOUSEMOVE_DELAY,
                                clientX, clientY))
  /\ mouseMoveTimeout' = nextTimer + 1
  /\ nextTimer' = nextTimer + 1
  /\ UNCHANGED <<pageYOffset, innerHeight, scrollHeight, supportsRAF,
                 hasProgressBar, ctl, scrollY, windowHeight, documentHeight,
                 resizeTimeout, progressWidth, targetMouseX, targetMouseY,
                 mouseX, mouseY>>

\* The timer t of the mousemove listener fires.
MouseMoveTimeout(t) ==
  /\ t \in timers
  /\ t.kind = "mousemove"
  /\ timers' = timers \ {t}
  /\ targetMouseX' = PointerTarget(t.clientX, innerWidth)
  /\ targetMouseY' = PointerTarget(t.clientY, innerHeight)
  /\ UNCHANGED <<pageYOffset, innerHeight, scrollHeight, supportsRAF,
                 hasProgressBar, ctl, scrollY, windowHeight, documentHeight,
                 resizeTimeout, progressWidth, nextTimer, mouseMoveTimeout,
                 mouseX, mouseY>>

\* animate(), on an animation frame.
animate ==
  /\ ctl = "running"
  /\ supportsRAF
  /\ UNCHANGED <<pageYOffset, innerHeight, scrollHeight, supportsRAF,
                 hasProgressBar, ctl, scrollY, windowHeight, documentHeight,
                 resizeTimeout, timers, nextTimer, mouseMoveTimeout,
                 targetMouseX, targetMouseY>>
  /\ update
  /\ UNCHANGED mvars

\* Another script takes the progress bar out of the document.
RemoveProgressBar ==
  /\ ctl = "running"
  /\ hasProgressBar
  /\ hasProgressBar' = FALSE
  /\ UNCHANGED <<pageYOffset, innerHeight, scrollHeight, supportsRAF, ctl,
                 scrollY, windowHeight, documentHeight, resizeTimeout,
                 progressWidth, timers, nextTimer, mouseMoveTimeout,
                 targetMouseX, targetMouseY, mouseX, mouseY>>
  /\ UNCHANGED mvars

\* Where the pointer goes: the top left and the top right corner of the
\* window.
PointerXs == {0, innerWidth}
PointerYs == {0}

ScrollTo ==
  /\ \E y \in Offsets : Scroll(y)
  /\ UNCHANGED mvars
ResizeTo ==
  /\ \E h \in Heights, d \in Heights : Resize(h, d)
  /\ UNCHANGED mvars
MoveTo ==
  /\ \E x \in PointerXs, y \in PointerYs : MouseMove(x, y)
  /\ UNCHANGED mvars
MouseTimer ==
  /\ \E t \in timers : MouseMoveTimeout(t)
  /\ UNCHANGED mvars

\* ------------------------------------------------------------- two tabs
\* Two tabs show the missions page of the same origin: one localStorage,
\* one MissionManager per page.  Handlers run to completion, one at a time,
\* so the variables of the missions page describe the page whose handler
\* runs next and `other' holds the page of the other tab.
Page(m, ms, id, display, v, errs) ==
  [mgr |-> m, missions |-> ms, editingMissionId |-> id,
   modalDisplay |-> display, view |-> v, errorText |-> errs]
NoPage == Page("unloaded", <<>>, null, "", <<>>, FreshErrors)
OneTab ==
  /\ tab = 1
  /\ other = NoPage
  /\ lastWriter = 0
  /\ writes = 0

\* What an earlier visit left under the key 'missions': the defaults after
\* two of them were deleted.
StoredEarlier == Stringify(<<getDefaultMissions(0, [i \in 1..3 |-> 0])[1]>>)

\* The next event is delivered to the other tab.  Nothing in script.js
\* listens to it: there is no 'storage' listener, and loadMissions() is
\* called by the constructor only.
SwitchTab ==
  /\ tab' = 3 - tab
  /\ other' = Page(mgr, missions, editingMissionId, modalDisplay, view,
                   errorText)
  /\ mgr' = other.mgr
  /\ missions' = other.missions
  /\ editingMissionId' = other.editingMissionId
  /\ modalDisplay' = other.modalDisplay
  /\ view' = other.view
  /\ errorText' = other.errorText
  /\ UNCHANGED <<storage, now, lastWriter, writes, winvars>>

\* this.saveMissions() was called by the page of the tab in front.
Saved ==
  /\ lastWriter' = tab
  /\ writes' = writes + 1
NotSaved == UNCHANGED <<lastWriter, writes>>

\* The handlers that mutate, in a tab: handleSubmit -> createMission,
\* handleEditSubmit -> updateMission, the delete button -> deleteMission.
TabSubmitCreate ==
  /\ writes < MaxWrites
  /\ \E f \in CreateFormData :
       /\ handleSubmit(f)
       /\ IF Validation[f].ok THEN Saved ELSE NotSaved
  /\ UNCHANGED <<winvars, tab, other>>
TabSubmitEdit ==
  /\ writes < MaxWrites
  /\ \E f \in {ValidEdit} :
       /\ handleEditSubmit(f)
       /\ IF Validation[f].ok /\ FindIndex(missions, editingMissionId) /= 0
          THEN Saved
          ELSE NotSaved
  /\ UNCHANGED <<winvars, tab, other>>
TabClickDelete ==
  /\ writes < MaxWrites
  /\ \E i \in 1..MaxMissions, c \in BOOLEAN :
       /\ DeleteButtonClick(i, c)
       /\ IF c THEN Saved ELSE NotSaved
  /\ UNCHANGED <<winvars, tab, other>>

\* -------------------------------------------------------- specifications
\* The parts of the state a specification does not exercise stay as they
\* are before their script runs.
IdleMissions ==
  /\ storage = NoItem
  /\ mgr = "unloaded"
  /\ missions = <<>>
  /\ editingMissionId = null
  /\ modalDisplay = ""
  /\ view = <<>>
  /\ errorText = FreshErrors
  /\ now = 0
IdleWindow ==
  /\ innerHeight = 1000 * MaxUnits
  /\ scrollHeight = 1000 * MaxUnits
  /\ pageYOffset = 0
  /\ supportsRAF = TRUE
  /\ hasProgressBar = FALSE
  /\ ctl = "none"
  /\ scrollY = 0
  /\ windowHeight = 0
  /\ documentHeight = 0
  /\ resizeTimeout = 0
  /\ progressWidth = Unset
  /\ timers = {}
  /\ nextTimer = 0
  /\ mouseMoveTimeout = 0
  /\ targetMouseX = Ratio(0, 1)
  /\ targetMouseY = Ratio(0, 1)
  /\ mouseX = 0
  /\ mouseY = 0

\* A visit to the missions page: loads, valid and invalid submissions,
\* edits and deletes.
Init == InitMissions /\ IdleWindow /\ OneTab
Next ==
  \/ PageLoad
  \/ SubmitCreate
  \/ SubmitEdit
  \/ ClickEdit
  \/ CloseClick
  \/ ClickDelete
Spec == Init /\ [][Next]_vars

\* A visit in which every submission is invalid.
NextInvalid ==
  \/ PageLoad
  \/ SubmitInvalidCreate
  \/ SubmitInvalidEdit
  \/ ClickEdit
  \/ CloseClick
SpecInvalid == Init /\ [][NextInvalid]_vars

\* The parallax controller of a page.
InitParallax == IdleMissions /\ InitWindow /\ OneTab
NextParallax ==
  \/ initParallax
  \/ ScrollTo
  \/ ResizeTo
  \/ ResizeTimeout
  \/ animate
  \/ RemoveProgressBar
  \/ MoveTo
  \/ MouseTimer
SpecParallax == InitParallax /\ [][NextParallax]_vars

\* Two tabs on the missions page, opened on a stored collection.
InitTabs ==
  /\ storage = StoredEarlier
  /\ mgr = "unloaded"
  /\ missions = <<>>
  /\ editingMissionId = null
  /\ modalDisplay = ""
  /\ view = <<>>
  /\ errorText = FreshErrors
  /\ now = 0
  /\ IdleWindow
  /\ OneTab
NextTabs ==
  \/ PageLoad
  \/ SwitchTab
  \/ TabSubmitCreate
  \/ TabSubmitEdit
  \/ TabClickDelete
  \/ ClickEdit
  \/ CloseClick
SpecTabs == InitTabs /\ [][NextTabs]_vars

\* ----------------------------------------------------------------- claims
NonBlank(text) == \E i \in 1..Len(text) : text[i] \notin WhiteSpace
RemoveAt(ms, k) == SubSeq(ms, 1, k - 1) \o SubSeq(ms, k + 1, Len(ms))
Ids(ms) == { ms[i].id : i \in 1..Len(ms) }
Min(a, b) == IF a <= b THEN a ELSE b

\* C1: a submission of the create form with valid data (a trimmed non-empty
\* name and destination, the year 2024, the status planned) appends exactly
\* one record: the length grows by one, the earlier records keep their
\* contents and order, and the new record's id differs from every id that
\* was already in the collection.
C1_CreateAppendsUniqueId ==
  [][handleSubmit(PlainCreate) =>
       /\ Len(missions') = Len(missions) + 1
       /\ SubSeq(missions', 1, Len(missions)) = missions
       /\ missions'[Len(missions')].id \notin Ids(missions)]_vars

\* What an invalid submission of the form with the given prefix leaves: the
\* collection and the stored copy as they were, a message under every
\* invalid field and no message under any valid field.
NoOpWithErrors(formData, prefix) ==
  /\ missions' = missions
  /\ storage' = storage
  /\ \A field \in Fields :
       FieldInvalid(formData, field) <=> errorText'[prefix][field] /= ""

\* C2: a submission of the create form or of the edit form in which some
\* field is blank or the year is out of range leaves the collection and
\* the stored copy unchanged, puts a non-empty message under every invalid
\* field (not only the first) and clears the message of every valid field.
C2_InvalidSubmitIsNoOp ==
  [][ /\ \A f \in InvalidCreateData : handleSubmit(f) => NoOpWithErrors(f, "")
      /\ \A f \in InvalidEditData :
           handleEditSubmit(f) => NoOpWithErrors(f, "edit-") ]_vars

\* An invalid create submission has acted: three fields carry a message at
\* once, the fourth is clear, and the defaults are all there, never saved.
C2_Witness ==
  /\ mgr = "ready"
  /\ errorText[""].name /= ""
  /\ errorText[""].destination /= ""
  /\ errorText[""].year /= ""
  /\ errorText[""].status = ""
  /\ Len(missions) = 3
  /\ storage.kind /= "json"

\* C3: the update an edit submission makes for the id being edited changes
\* at most one record, one whose id is that id, and leaves that record's id,
\* createdAt and position, and every other record, as they were; with valid
\* data and a record of that id, a record of that id gets the submitted
\* name, destination and status; when no record has the id, the collection
\* is unchanged and storage is not written.
C3_UpdateFrame ==
  [][\A f \in EditFormData :
       handleEditSubmit(f) =>
         /\ Len(missions') = Len(missions)
         /\ \A j \in 1..Len(missions) :
              missions'[j] /= missions[j] =>
                /\ missions[j].id = editingMissionId
                /\ missions'[j].id = missions[j].id
                /\ missions'[j].createdAt = missions[j].createdAt
                /\ \A k \in 1..Len(missions) :
                     k /= j => missions'[k] = missions[k]
         /\ editingMissionId \notin Ids(missions) =>
              missions' = missions /\ storage' = storage
         /\ (f = ValidEdit /\ editingMissionId \in Ids(missions)) =>
              \E j \in 1..Len(missions) :
                /\ missions[j].id = editingMissionId
                /\ missions'[j].name = f.name
                /\ missions'[j].destination = f.destination
                /\ missions'[j].status = f.status
                /\ storage' = Stringify(missions')]_vars

\* An update has acted: among three records one carries the submitted
\* name and status, the modal is closed and the collection was saved.
C3_Witness ==
  /\ mgr = "ready"
  /\ Len(missions) = 3
  /\ \E j \in 1..Len(missions) :
       missions[j].name = ValidEdit.name /\ missions[j].status = ValidEdit.status
  /\ modalDisplay = "none"
  /\ storage.kind = "json"

\* C4: a confirmed click on a card's delete button removes exactly one
\* record, one with the card's id: the collection afterwards is the
\* collection before without that one record, the others in their order.
C4_DeleteRemovesExactlyOne ==
  [][\A i \in 1..Len(view) :
       DeleteButtonClick(i, TRUE) =>
         \E k \in 1..Len(missions) :
           /\ missions[k].id = view[i]
           /\ missions' = RemoveAt(missions, k)]_vars

\* C5: whenever the manager is running and the collection has been saved,
\* loading the stored copy gives a collection equal to the one in memory.
C5_StoredCopyRoundTrips ==
  (mgr = "ready" /\ storage.kind = "json") =>
    /\ ~loadMissions(storage, now, <<0, 0, 0>>).threw
    /\ loadMissions(storage, now, <<0, 0, 0>>).value = missions

\* The contents of the three default records, in order.
DefaultContents(ms) ==
  /\ Len(ms) = 3
  /\ [i \in 1..3 |-> <<ms[i].name, ms[i].year, ms[i].status>>] =
       << << <<"Voyager 1">>, Num(1977), <<"active">> >>,
          << <<"Apollo 11">>, Num(1969), <<"completed">> >>,
          << <<"Mars 2020">>, Num(2020), <<"active">> >> >>

\* C6: a page load that finds the stored value missing or malformed ends
\* with the manager initialised and the collection holding the three
\* default records.
C6_MalformedOrMissingGivesDefaults ==
  [][(PageLoad /\ storage.kind \in {"null", "malformed"}) =>
       (mgr' = "ready" /\ DefaultContents(missions'))]_vars

ModalOpen == modalDisplay = "block"
EditStateConsistent == (editingMissionId = null) <=> ~ModalOpen

\* C7: editingMissionId is null exactly when the modal is closed; a click
\* on a card's edit button opens the modal with editingMissionId the id of
\* that card's record; a valid edit submission gives the first record of
\* that id the submitted name, destination and status, closes the modal
\* and clears editingMissionId; an invalid one leaves the modal open and
\* editingMissionId and the collection unchanged; a click on close closes
\* and clears without changing the collection; the modal opens only by an
\* edit click, and closes only by a close click, a valid submission or a
\* reload of the page.
C7_EditFlow ==
  [][ /\ EditStateConsistent
      /\ EditStateConsistent'
      /\ \A i \in 1..Len(view) :
           EditButtonClick(i) =>
             /\ ModalOpen'
             /\ editingMissionId' = missions[i].id
             /\ missions' = missions
      /\ handleEditSubmit(ValidEdit) =>
           /\ ~ModalOpen'
           /\ editingMissionId' = null
           /\ \A j \in 1..Len(missions) :
                (/\ missions[j].id = editingMissionId
                 /\ \A k \in 1..(j - 1) : missions[k].id /= editingMissionId)
                => /\ missions'[j].name = ValidEdit.name
                   /\ missions'[j].destination = ValidEdit.destination
                   /\ missions'[j].status = ValidEdit.status
      /\ handleEditSubmit(BlankDestinationEdit) =>
           /\ ModalOpen'
           /\ editingMissionId' = editingMissionId
           /\ missions' = missions
      /\ CloseClick =>
           /\ ~ModalOpen'
           /\ editingMissionId' = null
           /\ missions' = missions
      /\ (~ModalOpen /\ ModalOpen') =>
           \E i \in 1..Len(view) : EditButtonClick(i)
      /\ (ModalOpen /\ ~ModalOpen') =>
           CloseClick \/ handleEditSubmit(ValidEdit) \/ PageLoad ]_vars

\* An invalid edit submission has acted: the modal is still open on a
\* record of the collection, with a message under the destination.
C7_Witness ==
  /\ ModalOpen
  /\ editingMissionId \in Ids(missions)
  /\ errorText["edit-"].destination /= ""

\* C8: a click on a delete button whose prompt is declined leaves the
\* collection, the stored copy and the rendered list unchanged, and the
\* collection loses a record only in a delete click that was confirmed.
C8_DeleteOnlyAfterConfirm ==
  [][ /\ \A i \in 1..Len(view) :
           DeleteButtonClick(i, FALSE) =>
             missions' = missions /\ storage' = storage /\ view' = view
      /\ Len(missions') < Len(missions) =>
           \E i \in 1..Len(view) : DeleteButtonClick(i, TRUE) ]_vars

\* A confirmed delete has acted: two of the three defaults are left, in
\* memory, in storage and on the page.
C8_Witness ==
  /\ mgr = "ready"
  /\ Len(missions) = 2
  /\ storage = Stringify(missions)
  /\ view = Render(missions)

\* C9: every record of the collection has a name and a destination that
\* are non-empty after trimming, a year that is an integer within
\* [MIN_YEAR, MAX_YEAR], and a non-empty status.
C9_RecordFieldsValid ==
  \A i \in 1..Len(missions) :
    /\ NonBlank(missions[i].name)
    /\ NonBlank(missions[i].destination)
    /\ missions[i].year.t = "num"
    /\ missions[i].year.e = 0
    /\ missions[i].year.m \in MIN_YEAR..MAX_YEAR
    /\ missions[i].status /= <<>>

\* The steps that run update(): the controller's construction, an
\* animation frame, the resize timer, and a scroll where there is no
\* requestAnimationFrame.
UpdateCycle ==
  \/ initParallax
  \/ animate
  \/ ResizeTimeout
  \/ (~supportsRAF /\ \E y \in Offsets : Scroll(y))

\* w percent is min(y / maxScroll * 100, 100) percent: a number, at most
\* 100, and y * 100 / maxScroll when that is less.
WidthIsMinOf(w, y, maxScroll) ==
  /\ w.t = "num"
  /\ w.n <= 100 * w.d
  /\ maxScroll > 0 => w.n * maxScroll = Min(100 * y, 100 * maxScroll) * w.d

\* C10: after every update cycle in which the progress bar exists, its
\* width is min(scrollY / (documentHeight - windowHeight) * 100, 100)
\* percent, a number that is at most 100; a cycle in which the bar is absent
\* leaves the width as it was.
C10_WidthIsClampedPercent ==
  [][ /\ (UpdateCycle /\ hasProgressBar') =>
           WidthIsMinOf(progressWidth', scrollY',
                        documentHeight' - windowHeight')
      /\ (UpdateCycle /\ ~hasProgressBar') =>
           progressWidth' = progressWidth ]_vars

Pending(kind) == { t \in timers : t.kind = kind }
OnePendingPerKind ==
  /\ Cardinality(Pending("mousemove")) <= 1
  /\ Cardinality(Pending("resize")) <= 1

\* C11: at most one timer of the mousemove listener and one of the resize
\* listener are pending at any time.  A pointer move leaves pending, of its
\* kind, only the timer it sets (10 ms, closing over this event), and a
\* resize only the timer it sets (150 ms): a timer that was pending is
\* cancelled.  The timer that fires is the one the last event of its kind
\* set; the pointer target is written only then, from that event's
\* position, and the cached heights only then (and at construction), from
\* the window as that resize left it.  Whatever timers are pending, the
\* animation frame can run where requestAnimationFrame is supported.
C11_DebounceLastEventWins ==
  [][ /\ OnePendingPerKind
      /\ OnePendingPerKind'
      /\ \A x \in PointerXs, y \in PointerYs :
           MouseMove(x, y) =>
             /\ Pending("mousemove")' =
                  {Timer(mouseMoveTimeout', "mousemove", 10, x, y)}
             /\ Pending("resize")' = Pending("resize")
      /\ \A h \in Heights, d \in Heights :
           Resize(h, d) =>
             /\ Pending("resize")' = {Timer(resizeTimeout', "resize", 150, 0, 0)}
             /\ Pending("mousemove")' = Pending("mousemove")
      /\ \A t \in timers :
           MouseMoveTimeout(t) =>
             /\ t.id = mouseMoveTimeout
             /\ targetMouseX' = Ratio(2 * t.clientX - innerWidth, innerWidth)
             /\ targetMouseY' = Ratio(2 * t.clientY - innerHeight, innerHeight)
      /\ (targetMouseX' /= targetMouseX \/ targetMouseY' /= targetMouseY) =>
           \E t \in timers : MouseMoveTimeout(t)
      /\ ResizeTimeout =>
           /\ \E t \in timers : t.id = resizeTimeout /\ timers' = timers \ {t}
           /\ windowHeight' = innerHeight
           /\ documentHeight' = scrollHeight
      /\ (windowHeight' /= windowHeight \/ documentHeight' /= documentHeight)
           => (ResizeTimeout \/ initParallax)
      /\ (ctl = "running" /\ supportsRAF) => ENABLED animate ]_vars

\* A burst has acted: two pointer moves and no resize have happened, the
\* first move's timer was cancelled (no timer has fired: the target is as
\* constructed) and the second move's timer, from the right edge, is the
\* one pending.
C11_Witness ==
  /\ nextTimer = 2
  /\ resizeTimeout = 0
  /\ mouseMoveTimeout = 2
  /\ timers = {Timer(2, "mousemove", 10, innerWidth, 0)}
  /\ targetMouseX = Ratio(0, 1)
  /\ targetMouseY = Ratio(0, 1)

\* The in-memory collection of the page in tab k.
MissionsOf(k) == IF k = tab THEN missions ELSE other.missions

\* C12: with two tabs on the same storage key, after any interleaving of
\* their creates, updates and deletes the stored value is the serialisation
\* of the collection held by the page that saved last, whatever the other
\* page persisted before; and a page's collection changes only by its own
\* handlers: a step of one tab leaves the other page as it was.
C12_LastWriterWins ==
  /\ [](lastWriter /= 0 => storage = Stringify(MissionsOf(lastWriter)))
  /\ [][ /\ tab' = tab => other' = other
         /\ tab' /= tab => /\ other'.missions = missions
                           /\ missions' = other.missions
                           /\ storage' = storage ]_vars
\* The tab in front created a record and saved it; then the other tab saved,
\* and the stored value no longer holds the record.
C12_Witness ==
  /\ writes >= 2
  /\ lastWriter = 3 - tab
  /\ other.mgr = "ready"
  /\ \E i \in 1..Len(missions) : missions[i].name = ValidName
  /\ storage.kind = "json"
  /\ \A j \in 1..Len(storage.items) : storage.items[j].name /= ValidName
  /\ storage = Stringify(other.missions)

\* C13: whenever the edit modal is open, editingMissionId is the id of a
\* record of the collection, under any interleaving of edit clicks, edit
\* submissions, closes, creates and confirmed deletes; so that a valid edit
\* submission always finds the record it modifies.
C13_EditingIdNamesRecord ==
  ModalOpen => editingMissionId \in Ids(missions)

====
